---- MODULE Spec2Model ----
(***************************************************************************)
(* Model of lib/jsonwp-proxy/protocol-converter.js: the ProtocolConverter  *)
(* class that reshapes a request (command name, url, method, body) for the *)
(* protocol of the downstream driver (MJSONWP or W3C) and forwards it      *)
(* through the injected proxyFunc.                                         *)
(*                                                                         *)
(* Strings whose text the code inspects (urls, object keys, values tested  *)
(* by a regular expression, JSON text) are sequences of one-character      *)
(* strings, so that String.replace, String.includes, RegExp.test and       *)
(* JSON.parse are computed character by character.                         *)
(***************************************************************************)
EXTENDS Integers, Sequences, FiniteSets, TLC

(***************************************************************************)
(* String literals of the source, as character sequences.                  *)
(***************************************************************************)
s_execute == <<"/","e","x","e","c","u","t","e">>
s_execute_async == <<"/","e","x","e","c","u","t","e","_","a","s","y","n","c">>
s_execute_sync_w3c == <<"/","e","x","e","c","u","t","e","/","s","y","n","c">>
s_execute_async_w3c == <<"/","e","x","e","c","u","t","e","/","a","s","y","n","c">>
s_async == <<"a","s","y","n","c">>
s_element == <<"/","e","l","e","m","e","n","t","/">>
s_screenshot_end == <<"/","s","c","r","e","e","n","s","h","o","t">>
s_screenshot == <<"/","s","c","r","e","e","n","s","h","o","t","/">>
s_window == <<"/","w","i","n","d","o","w">>
s_window_handle == <<"/","w","i","n","d","o","w","_","h","a","n","d","l","e">>
s_window_handles == <<"/","w","i","n","d","o","w","_","h","a","n","d","l","e","s">>
s_window_slash_handle == <<"/","w","i","n","d","o","w","/","h","a","n","d","l","e">>
s_window_slash_handles == <<"/","w","i","n","d","o","w","/","h","a","n","d","l","e","s">>
s_ms == <<"m","s">>
s_type == <<"t","y","p","e">>
s_page_load == <<"p","a","g","e"," ","l","o","a","d">>
s_pageLoad == <<"p","a","g","e","L","o","a","d">>
s_name == <<"n","a","m","e">>
s_handle == <<"h","a","n","d","l","e">>
s_null == <<"n","u","l","l">>
s_true == <<"t","r","u","e">>
s_false == <<"f","a","l","s","e">>
s_undefined == <<"u","n","d","e","f","i","n","e","d">>
s_object == <<"[","o","b","j","e","c","t"," ","O","b","j","e","c","t","]">>

Digits == <<"0","1","2","3","4","5","6","7","8","9">>

IsDigit(c) == \E d \in 1..10 : Digits[d] = c

(***************************************************************************)
(* String primitives used by the converters.                               *)
(***************************************************************************)
\* pat occurs in s starting at position i
MatchAt(s, pat, i) ==
  /\ i >= 1
  /\ i + Len(pat) - 1 <= Len(s)
  /\ \A k \in 1..Len(pat) : s[i + k - 1] = pat[k]

\* position of the leftmost occurrence of pat in s, 0 when there is none
IndexOf(s, pat) ==
  LET hits == {i \in 1..Len(s) : MatchAt(s, pat, i)}
  IN IF hits = {} THEN 0 ELSE CHOOSE i \in hits : \A j \in hits : i <= j

\* String.prototype.includes
Includes(s, pat) == IndexOf(s, pat) # 0

\* a pattern anchored by $ : pat is the tail of s
EndsWith(s, pat) ==
  /\ Len(pat) <= Len(s)
  /\ MatchAt(s, pat, Len(s) - Len(pat) + 1)

\* s without its last n characters
DropLast(s, n) == SubSeq(s, 1, Len(s) - n)

\* the end of the run of non-'/' characters that starts at position i
\* (the greedy match of [^/]+ from i); i - 1 when the run is empty
RECURSIVE SegmentEnd(_, _)
SegmentEnd(s, i) ==
  IF i > Len(s) \/ s[i] = "/" THEN i - 1 ELSE SegmentEnd(s, i + 1)

(***************************************************************************)
(* COMMAND_URLS_CONFLICTS, rule 1: execute / executeAsync.                 *)
(* url.replace(/\/execute.*/, r): the leftmost "/execute" and everything   *)
(* after it is replaced by r.                                              *)
(***************************************************************************)
ReplaceExecute(url, r) ==
  LET i == IndexOf(url, s_execute)
  IN IF i = 0 THEN url ELSE SubSeq(url, 1, i - 1) \o r

\* variant: url.endsWith('async') instead of url.includes('async')
executeJsonwpConverterBySuffix(url) ==
  ReplaceExecute(url, IF EndsWith(url, s_async) THEN s_execute_async ELSE s_execute)

executeJsonwpConverter(url) ==
  ReplaceExecute(url, IF Includes(url, s_async) THEN s_execute_async ELSE s_execute)

\* variant: url.replace(/\/execute/, ...), the rest of the url is kept
executeW3cConverterKeepsRest(url) ==
  LET i == IndexOf(url, s_execute)
      r == IF Includes(url, s_async) THEN s_execute_async_w3c ELSE s_execute_sync_w3c
  IN IF i = 0 THEN url
     ELSE SubSeq(url, 1, i - 1) \o r \o SubSeq(url, i + Len(s_execute), Len(url))

executeW3cConverter(url) ==
  ReplaceExecute(url, IF Includes(url, s_async) THEN s_execute_async_w3c
                                                 ELSE s_execute_sync_w3c)

(***************************************************************************)
(* Rule 2: getElementScreenshot.                                           *)
(***************************************************************************)
\* url.replace(/\/element\/([^/]+)\/screenshot$/, '/screenshot/$1')
screenshotJsonwpConverter(url) ==
  LET hits == {i \in 1..Len(url) :
                 /\ MatchAt(url, s_element, i)
                 /\ SegmentEnd(url, i + Len(s_element)) >= i + Len(s_element)
                 /\ MatchAt(url, s_screenshot_end,
                            SegmentEnd(url, i + Len(s_element)) + 1)
                 /\ SegmentEnd(url, i + Len(s_element)) + Len(s_screenshot_end)
                      = Len(url)}
  IN IF hits = {} THEN url
     ELSE LET i == CHOOSE h \in hits : \A j \in hits : h <= j
              e == SegmentEnd(url, i + Len(s_element))
          IN SubSeq(url, 1, i - 1) \o s_screenshot
               \o SubSeq(url, i + Len(s_element), e)

\* url.replace(/\/screenshot\/([^/]+)/, '/element/$1/screenshot')
screenshotW3cConverter(url) ==
  LET hits == {i \in 1..Len(url) :
                 /\ MatchAt(url, s_screenshot, i)
                 /\ SegmentEnd(url, i + Len(s_screenshot)) >= i + Len(s_screenshot)}
  IN IF hits = {} THEN url
     ELSE LET i == CHOOSE h \in hits : \A j \in hits : h <= j
              e == SegmentEnd(url, i + Len(s_screenshot))
          IN SubSeq(url, 1, i - 1) \o s_element
               \o SubSeq(url, i + Len(s_screenshot), e) \o s_screenshot_end
               \o SubSeq(url, e + 1, Len(url))

(***************************************************************************)
(* Rule 3: getWindowHandles / getWindowHandle.                             *)
(***************************************************************************)
\* variant: the second replace drops the captured plural,
\* url.replace(/\/window\/handle(s?)$/, '/window_handle')
windowJsonwpConverterDropsPlural(url) ==
  IF EndsWith(url, s_window)
    THEN DropLast(url, Len(s_window)) \o s_window_handle
    ELSE IF EndsWith(url, s_window_slash_handles)
      THEN DropLast(url, Len(s_window_slash_handles)) \o s_window_handle
      ELSE IF EndsWith(url, s_window_slash_handle)
        THEN DropLast(url, Len(s_window_slash_handle)) \o s_window_handle
        ELSE url

windowJsonwpConverter(url) ==
  IF EndsWith(url, s_window)
    THEN DropLast(url, Len(s_window)) \o s_window_handle
    ELSE IF EndsWith(url, s_window_slash_handles)
      THEN DropLast(url, Len(s_window_slash_handles)) \o s_window_handles
      ELSE IF EndsWith(url, s_window_slash_handle)
        THEN DropLast(url, Len(s_window_slash_handle)) \o s_window_handle
        ELSE url

\* variant: the singular form is tested without the anchor,
\* /\/window_handle/.test(url), so the plural form takes the first branch
windowW3cConverterUnanchoredTest(url) ==
  IF Includes(url, s_window_handle)
    THEN IF EndsWith(url, s_window_handle)
           THEN DropLast(url, Len(s_window_handle)) \o s_window
           ELSE url
    ELSE url

windowW3cConverter(url) ==
  IF EndsWith(url, s_window_handle)
    THEN DropLast(url, Len(s_window_handle)) \o s_window
    ELSE IF EndsWith(url, s_window_handles)
      THEN DropLast(url, Len(s_window_handles)) \o s_window_slash_handles
      ELSE url

(***************************************************************************)
(* JavaScript values: request bodies and what they contain.  One record    *)
(* shape for every value: t is the type, n the number, s the characters of *)
(* a string, kv the own enumerable entries <<key, value>> of an object or  *)
(* array in the order Object.keys lists them.                              *)
(***************************************************************************)
JsNull == [t |-> "null", n |-> 0, s |-> <<>>, kv |-> <<>>]
JsUndefined == [t |-> "undefined", n |-> 0, s |-> <<>>, kv |-> <<>>]
JsBool(b) == [t |-> "boolean", n |-> IF b THEN 1 ELSE 0, s |-> <<>>, kv |-> <<>>]
JsNum(x) == [t |-> "number", n |-> x, s |-> <<>>, kv |-> <<>>]
JsStr(x) == [t |-> "string", n |-> 0, s |-> x, kv |-> <<>>]
JsObj(pairs) == [t |-> "object", n |-> 0, s |-> <<>>, kv |-> pairs]
JsArr(pairs) == [t |-> "array", n |-> 0, s |-> <<>>, kv |-> pairs]

\* Number.prototype.toString for integers
RECURSIVE NatToString(_)
NatToString(x) ==
  IF x < 10 THEN <<Digits[x + 1]>>
  ELSE NatToString(x \div 10) \o <<Digits[(x % 10) + 1]>>

NumToString(x) == IF x < 0 THEN <<"-">> \o NatToString(-x) ELSE NatToString(x)

\* ToString of a value that is not an array
ScalarToString(v) ==
  CASE v.t = "null" -> s_null
    [] v.t = "undefined" -> s_undefined
    [] v.t = "number" -> NumToString(v.n)
    [] v.t = "boolean" -> IF v.n = 1 THEN s_true ELSE s_false
    [] v.t = "string" -> v.s
    [] OTHER -> s_object

\* Array.prototype.join(','): null and undefined elements become ''
RECURSIVE JoinFrom(_, _)
JoinFrom(pairs, i) ==
  IF i > Len(pairs) THEN <<>>
  ELSE (IF i > 1 THEN <<",">> ELSE <<>>)
         \o (IF pairs[i][2].t \in {"null", "undefined"} THEN <<>>
             ELSE ScalarToString(pairs[i][2]))
         \o JoinFrom(pairs, i + 1)

\* the template literal `${v}` and the conversion of a computed property key
JsToString(v) == IF v.t = "array" THEN JoinFrom(v.kv, 1) ELSE ScalarToString(v)

\* _.has(v, key) for a key that is not an index: an own property of an object
Has(v, key) == v.t = "object" /\ \E i \in 1..Len(v.kv) : v.kv[i][1] = key

\* v[key] of an object
Get(v, key) ==
  IF Has(v, key)
    THEN v.kv[CHOOSE i \in 1..Len(v.kv) : v.kv[i][1] = key][2]
    ELSE JsUndefined

\* _.toPairs(v): the entries of an object or array, the indexed characters
\* of a string, nothing for null, undefined and numbers
toPairs(v) ==
  CASE v.t \in {"object", "array"} -> v.kv
    [] v.t = "string" -> [i \in 1..Len(v.s) |-> <<NatToString(i - 1), JsStr(<<v.s[i]>>)>>]
    [] OTHER -> <<>>

\* _.isPlainObject
isPlainObject(v) == v.t = "object"

(***************************************************************************)
(* getTimeoutRequestObjects                                                *)
(***************************************************************************)
MJSONWP == "MJSONWP"
W3C == "W3C"

\* variant: the type name is used as the key without mapping
typeToW3CUnmapped(x) == x

typeToW3C(x) == IF x = JsStr(s_page_load) THEN JsStr(s_pageLoad) ELSE x

typeToJSONWP(x) == IF x = s_pageLoad THEN s_page_load ELSE x

\* the end of the run of digits that starts at position i; i - 1 when empty
RECURSIVE DigitsEnd(_, _)
DigitsEnd(s, i) ==
  IF i > Len(s) \/ ~IsDigit(s[i]) THEN i - 1 ELSE DigitsEnd(s, i + 1)

\* variant: /^\d+$/.test(s), no decimal separator
IsValidMsDigitsOnly(s) == Len(s) >= 1 /\ DigitsEnd(s, 1) = Len(s)

\* /^\d+(?:[.,]\d*?)?$/.test(s)
IsValidMs(s) ==
  LET e == DigitsEnd(s, 1)
  IN /\ e >= 1
     /\ \/ e = Len(s)
        \/ /\ s[e + 1] \in {".", ","}
           /\ DigitsEnd(s, e + 2) = Len(s)

\* the subsequence of pairs whose value passes the filter, in order
RECURSIVE FilterPairs(_, _)
FilterPairs(pairs, i) ==
  IF i > Len(pairs) THEN <<>>
  ELSE (IF IsValidMs(JsToString(pairs[i][2])) THEN <<pairs[i]>> ELSE <<>>)
         \o FilterPairs(pairs, i + 1)

TimeoutPairToObject(pair) ==
  JsObj(<< <<s_type, JsStr(typeToJSONWP(pair[1]))>>, <<s_ms, pair[2]>> >>)

getTimeoutRequestObjects(protocol, body) ==
  IF protocol = W3C /\ Has(body, s_ms) /\ Has(body, s_type)
    THEN << JsObj(<< <<JsToString(typeToW3C(Get(body, s_type))), Get(body, s_ms)>> >>) >>
    ELSE IF protocol = MJSONWP /\ (~Has(body, s_ms) \/ ~Has(body, s_type))
      THEN LET kept == FilterPairs(toPairs(body), 1)
           IN [i \in 1..Len(kept) |-> TimeoutPairToObject(kept[i])]
      ELSE <<body>>

(***************************************************************************)
(* util.safeJsonParse (appium-support): JSON.parse of the argument         *)
(* converted to a string, and the argument itself when JSON.parse throws.  *)
(* JSON.parse is computed for JSON text without white space and escapes:   *)
(* strings, integers, true, false, null, and objects and arrays of those.  *)
(***************************************************************************)
ParseFail == [ok |-> FALSE, v |-> JsUndefined, next |-> 0]

ParseOk(val, next) == [ok |-> TRUE, v |-> val, next |-> next]

RECURSIVE DigitsValue(_, _, _)
DigitsValue(s, i, e) ==
  IF e < i THEN 0
  ELSE 10 * DigitsValue(s, i, e - 1)
         + ((CHOOSE d \in 1..10 : Digits[d] = s[e]) - 1)

\* the position of the closing quote of a string, searched from j, or 0
RECURSIVE ClosingQuote(_, _)
ClosingQuote(s, j) ==
  IF j > Len(s) \/ s[j] = "\\" THEN 0
  ELSE IF s[j] = "\"" THEN j ELSE ClosingQuote(s, j + 1)

\* the digits s[b..e] as an integer, negated when sign = -1
NumberFrom(s, b, e, sign) ==
  IF e < b \/ (s[b] = "0" /\ e > b) THEN ParseFail
  ELSE ParseOk(JsNum(sign * DigitsValue(s, b, e)), e + 1)

ParseNumberAt(s, i) ==
  IF s[i] = "-" THEN NumberFrom(s, i + 1, DigitsEnd(s, i + 1), 0 - 1)
  ELSE NumberFrom(s, i, DigitsEnd(s, i), 1)

\* the string that opens at i and closes at j
StringFrom(s, i, j) ==
  IF j = 0 THEN ParseFail ELSE ParseOk(JsStr(SubSeq(s, i + 1, j - 1)), j + 1)

\* a JSON value that is not an object or array, starting at position i
ParseScalarAt(s, i) ==
  IF i > Len(s) THEN ParseFail
  ELSE IF s[i] = "\"" THEN StringFrom(s, i, ClosingQuote(s, i + 1))
  ELSE IF MatchAt(s, s_null, i) THEN ParseOk(JsNull, i + Len(s_null))
  ELSE IF MatchAt(s, s_true, i) THEN ParseOk(JsBool(TRUE), i + Len(s_true))
  ELSE IF MatchAt(s, s_false, i) THEN ParseOk(JsBool(FALSE), i + Len(s_false))
  ELSE ParseNumberAt(s, i)

\* a later member with the same key replaces the value of the earlier one
PutPair(pairs, key, val) ==
  IF \E k \in 1..Len(pairs) : pairs[k][1] = key
    THEN [k \in 1..Len(pairs) |->
            IF pairs[k][1] = key THEN <<key, val>> ELSE pairs[k]]
    ELSE Append(pairs, <<key, val>>)

\* the members of an object after '{' or ',', up to and including '}':
\* ParseMembers reads the key, MembersAfterKey the ':' and the value,
\* MembersAfterValue the ',' or '}' that follows
RECURSIVE ParseMembers(_, _, _)
RECURSIVE MembersAfterKey(_, _, _)
RECURSIVE MembersAfterValue(_, _, _)

MembersAfterValue(s, val, members) ==
  IF ~val.ok \/ val.next > Len(s) THEN ParseFail
  ELSE IF s[val.next] = "," THEN ParseMembers(s, val.next + 1, members)
  ELSE IF s[val.next] = "}" THEN ParseOk(JsObj(members), val.next + 1)
  ELSE ParseFail

ValueAfterKey(s, key, val, acc) ==
  MembersAfterValue(s, val, IF val.ok THEN PutPair(acc, key.v.s, val.v) ELSE acc)

MembersAfterKey(s, key, acc) ==
  IF ~key.ok \/ key.v.t # "string" \/ key.next > Len(s) \/ s[key.next] # ":"
    THEN ParseFail
    ELSE ValueAfterKey(s, key, ParseScalarAt(s, key.next + 1), acc)

ParseMembers(s, i, acc) == MembersAfterKey(s, ParseScalarAt(s, i), acc)

\* the elements of an array after '[' or ',', up to and including ']'
RECURSIVE ParseElements(_, _, _)
RECURSIVE ElementsAfterValue(_, _, _)

ElementsAfterValue(s, val, acc) ==
  IF ~val.ok \/ val.next > Len(s) THEN ParseFail
  ELSE IF s[val.next] = ","
    THEN ParseElements(s, val.next + 1, Append(acc, <<NatToString(Len(acc)), val.v>>))
  ELSE IF s[val.next] = "]"
    THEN ParseOk(JsArr(Append(acc, <<NatToString(Len(acc)), val.v>>)), val.next + 1)
  ELSE ParseFail

ParseElements(s, i, acc) == ElementsAfterValue(s, ParseScalarAt(s, i), acc)

ParseValueAt(s, i) ==
  IF i > Len(s) THEN ParseFail
  ELSE IF s[i] = "{"
    THEN IF i < Len(s) /\ s[i + 1] = "}"
           THEN ParseOk(JsObj(<<>>), i + 2)
           ELSE ParseMembers(s, i + 1, <<>>)
  ELSE IF s[i] = "["
    THEN IF i < Len(s) /\ s[i + 1] = "]"
           THEN ParseOk(JsArr(<<>>), i + 2)
           ELSE ParseElements(s, i + 1, <<>>)
  ELSE ParseScalarAt(s, i)

\* a parse that stops before the end of the text is a syntax error
WholeText(r, text) == IF r.ok /\ r.next = Len(text) + 1 THEN r ELSE ParseFail

\* JSON.parse(text): ok is FALSE when it throws
JsonParse(text) == WholeText(ParseValueAt(text, 1), text)

\* try { return JSON.parse(obj); } catch (ign) { return obj; }
ParsedOr(r, obj) == IF r.ok THEN r.v ELSE obj

safeJsonParse(obj) == ParsedOr(JsonParse(JsToString(obj)), obj)

(***************************************************************************)
(* proxySetWindow: the body it hands to proxyFunc.                         *)
(***************************************************************************)
\* variant: the pass-through forwards the parsed body
SetWindowBodyOfParsed(protocol, body, bodyObj) ==
  IF isPlainObject(bodyObj)
       /\ protocol = W3C /\ Has(bodyObj, s_name) /\ ~Has(bodyObj, s_handle)
    THEN JsObj(<< <<s_handle, Get(bodyObj, s_name)>> >>)
    ELSE IF isPlainObject(bodyObj)
            /\ protocol = MJSONWP /\ Has(bodyObj, s_handle) /\ ~Has(bodyObj, s_name)
      THEN JsObj(<< <<s_name, Get(bodyObj, s_handle)>> >>)
      ELSE bodyObj

SetWindowBodyOf(protocol, body, bodyObj) ==
  IF isPlainObject(bodyObj)
       /\ protocol = W3C /\ Has(bodyObj, s_name) /\ ~Has(bodyObj, s_handle)
    THEN JsObj(<< <<s_handle, Get(bodyObj, s_name)>> >>)
    ELSE IF isPlainObject(bodyObj)
            /\ protocol = MJSONWP /\ Has(bodyObj, s_handle) /\ ~Has(bodyObj, s_name)
      THEN JsObj(<< <<s_name, Get(bodyObj, s_handle)>> >>)
      ELSE body

SetWindowBody(protocol, body) ==
  SetWindowBodyOf(protocol, body, safeJsonParse(body))

(***************************************************************************)
(* COMMAND_URLS_CONFLICTS and the loop of convertAndProxy over it.         *)
(***************************************************************************)
COMMAND_URLS_CONFLICTS ==
  << [commandNames |-> {"execute", "executeAsync"}, rule |-> "execute"],
     [commandNames |-> {"getElementScreenshot"}, rule |-> "screenshot"],
     [commandNames |-> {"getWindowHandles", "getWindowHandle"}, rule |-> "window"] >>

jsonwpConverter(rule, url) ==
  CASE rule = "execute" -> executeJsonwpConverter(url)
    [] rule = "screenshot" -> screenshotJsonwpConverter(url)
    [] rule = "window" -> windowJsonwpConverter(url)

w3cConverter(rule, url) ==
  CASE rule = "execute" -> executeW3cConverter(url)
    [] rule = "screenshot" -> screenshotW3cConverter(url)
    [] rule = "window" -> windowW3cConverter(url)

\* variant: the converters are chosen the other way round
RewrittenUrlSwapped(protocol, rule, url) ==
  IF protocol = MJSONWP THEN w3cConverter(rule, url) ELSE jsonwpConverter(rule, url)

\* rewrittenUrl of one rule
RewrittenUrl(protocol, rule, url) ==
  IF protocol = MJSONWP THEN jsonwpConverter(rule, url) ELSE w3cConverter(rule, url)

\* the call the loop over the table ends in, from entry i on: entries that
\* do not list the command are skipped; the first that does either rewrites
\* the url (proxyFunc is called on line 175) or ends the loop (line 179)
\* variant: the test of commandNames (lines 161-163) is missing, the first
\* entry of the table is applied to every command
RuleTableCallAnyCommand(protocol, commandName, url, i) ==
  IF RewrittenUrl(protocol, COMMAND_URLS_CONFLICTS[1].rule, url) = url
    THEN [url |-> url, site |-> 179]
    ELSE [url |-> RewrittenUrl(protocol, COMMAND_URLS_CONFLICTS[1].rule, url),
          site |-> 175]

RECURSIVE RuleTableCall(_, _, _, _)
RuleTableCall(protocol, commandName, url, i) ==
  IF i > Len(COMMAND_URLS_CONFLICTS) THEN [url |-> url, site |-> 179]
  ELSE IF commandName \notin COMMAND_URLS_CONFLICTS[i].commandNames
    THEN RuleTableCall(protocol, commandName, url, i + 1)
    ELSE LET rewrittenUrl == RewrittenUrl(protocol, COMMAND_URLS_CONFLICTS[i].rule, url)
         IN IF rewrittenUrl = url
              THEN [url |-> url, site |-> 179]
              ELSE [url |-> rewrittenUrl, site |-> 175]

(***************************************************************************)
(* Inputs: the values the caller and the transport may supply.             *)
(***************************************************************************)
s_session == <<"/","s","e","s","s","i","o","n","/">>
s_timeouts == <<"/","t","i","m","e","o","u","t","s">>
s_script == <<"s","c","r","i","p","t">>
s_implicit == <<"i","m","p","l","i","c","i","t">>
s_main == <<"m","a","i","n">>
s_abc == <<"a","b","c">>
s_123 == <<"1","2","3">>
s_async1 == <<"a","s","y","n","c","1">>
s_execute1 == <<"e","x","e","c","u","t","e","1">>
s_screenshot_sid == <<"s","c","r","e","e","n","s","h","o","t">>
s_1000 == <<"1","0","0","0">>
s_2000_5 == <<"2","0","0","0",".","5">>
s_1c5 == <<"1",",","5">>
s_10dot == <<"1","0",".">>
s_neg5 == <<"-","5">>
j_name_main == <<"{","\"","n","a","m","e","\"",":","\"","m","a","i","n","\"","}">>
j_handle_main == <<"{","\"","h","a","n","d","l","e","\"",":","\"","m","a","i","n","\"","}">>
j_array == <<"[","\"","m","a","i","n","\"","]">>

\* /session/{sid}{endpoint}
SessionUrl(sid, endpoint) == s_session \o sid \o endpoint

\* the endpoints of the rule table in the form each jsonwpConverter produces
JsonwpEndpoints ==
  { s_execute, s_execute_async, s_screenshot \o s_123,
    s_window_handle, s_window_handles }

\* the endpoints of the rule table in the form each w3cConverter produces
W3cEndpoints ==
  { s_execute_sync_w3c, s_execute_async_w3c,
    s_element \o s_123 \o s_screenshot_end,
    s_window, s_window_slash_handles }

Urls ==
  {SessionUrl(s_abc, e) : e \in JsonwpEndpoints \cup W3cEndpoints \cup {s_timeouts}}
    \cup { SessionUrl(s_async1, s_execute),
           SessionUrl(s_async1, s_execute_sync_w3c),
           SessionUrl(s_execute1, s_execute),
           SessionUrl(s_screenshot_sid, s_element \o s_123 \o s_screenshot_end) }

Methods == {"GET", "POST"}

Commands ==
  { "timeouts", "setWindow", "execute", "executeAsync", "getElementScreenshot",
    "getWindowHandle", "getWindowHandles", "getStatus" }

TimeoutBodies ==
  { JsNull,
    JsObj(<<>>),
    JsObj(<< <<s_type, JsStr(s_page_load)>>, <<s_ms, JsNum(5000)>> >>),
    JsObj(<< <<s_ms, JsNum(100)>>, <<s_type, JsStr(s_implicit)>> >>),
    JsObj(<< <<s_script, JsStr(s_1000)>>, <<s_pageLoad, JsStr(s_2000_5)>>,
             <<s_implicit, JsStr(s_abc)>> >>),
    JsObj(<< <<s_implicit, JsNum(0)>>, <<s_pageLoad, JsNum(2000)>>,
             <<s_script, JsNum(30)>> >>),
    JsObj(<< <<s_implicit, JsStr(s_neg5)>>, <<s_script, JsNull>> >>),
    JsObj(<< <<s_pageLoad, JsStr(s_1c5)>>, <<s_ms, JsStr(s_10dot)>> >>) }

WindowBodies ==
  { JsObj(<< <<s_name, JsStr(s_main)>> >>),
    JsObj(<< <<s_handle, JsStr(s_main)>> >>),
    JsObj(<< <<s_name, JsStr(s_main)>>, <<s_handle, JsStr(s_abc)>> >>),
    JsStr(j_name_main),
    JsStr(j_handle_main),
    JsStr(j_array),
    JsStr(s_main) }

Bodies == TimeoutBodies \cup WindowBodies

\* values of _downstreamProtocol: null and '' are falsy, 'OTHER' is a value
\* the setter accepts that names neither protocol
Protocols == {"null", "", MJSONWP, W3C, "OTHER"}

\* the requests the caller dispatches: every command with every url, and
\* the commands that do not depend on the url with every body
Requests ==
  [commandName : Commands, url : Urls, method : Methods,
   body : {JsNull, JsObj(<< <<s_name, JsStr(s_main)>> >>)}]
    \cup [commandName : {"timeouts", "setWindow", "getStatus"},
          url : {SessionUrl(s_abc, s_timeouts), SessionUrl(s_abc, s_window)},
          method : Methods, body : Bodies]

\* variant: only null counts as unknown (a test `=== null`)
FalsyOnlyNull(value) == value = "null"

Falsy(value) == value \in {"null", ""}

\* what proxyFunc resolves to: [response, resBody], response.statusCode
StatusCodes == {200, 399, 400}
TransportResults == [statusCode : StatusCodes, resBody : {"value"}]

\* [undefined, undefined]: the locals of proxySetTimeouts before any call
UndefinedResult == [statusCode |-> -1, resBody |-> "undefined"]

\* what proxyFunc rejects with
TransportErrors == {"ECONNREFUSED", "ETIMEDOUT"}

(***************************************************************************)
(* State of one ProtocolConverter and of the dispatch (convertAndProxy     *)
(* call) it is running.  JavaScript runs one continuation at a time: a     *)
(* dispatch is suspended only at `await this.proxyFunc(...)`, and the      *)
(* setter of downstreamProtocol may run while it is suspended.             *)
(***************************************************************************)
VARIABLES
  downstreamProtocol,     \* this._downstreamProtocol
  pc,                     \* "idle", "awaiting", "returned" or "thrown"
  args,                   \* commandName, url, method, body of the dispatch
  site,                   \* source line of the proxyFunc call being awaited
  timeoutRequestObjects,  \* proxySetTimeouts: the request bodies (line 96)
  idx,                    \* proxySetTimeouts: position of the for loop
  response,               \* proxySetTimeouts: the locals response, resBody
  pending,                \* numbers of the proxyFunc calls not yet settled
  calls,                  \* the proxyFunc calls of the dispatch, in order
  results,                \* what proxyFunc resolved to, in order
  result,                 \* what convertAndProxy resolved to
  failure,                \* what convertAndProxy rejected with
  rejections,             \* history: what proxyFunc rejected with, in order
  startProtocol,          \* history: downstreamProtocol when the dispatch began
  changed                 \* history: the setter changed the value meanwhile

vars == << downstreamProtocol, pc, args, site, timeoutRequestObjects, idx,
           response, pending, calls, results, result, failure,
           rejections, startProtocol, changed >>

NoArgs == [commandName |-> "", url |-> <<>>, method |-> "", body |-> JsUndefined]

Init ==
  /\ downstreamProtocol = "null"
  /\ pc = "idle"
  /\ args = NoArgs
  /\ site = 0
  /\ timeoutRequestObjects = <<>>
  /\ idx = 0
  /\ response = UndefinedResult
  /\ pending = {}
  /\ calls = <<>>
  /\ results = <<>>
  /\ result = UndefinedResult
  /\ failure = "none"
  /\ rejections = <<>>
  /\ startProtocol = "null"
  /\ changed = FALSE

\* set downstreamProtocol (value)
SetDownstreamProtocol(value) ==
  /\ downstreamProtocol' = value
  /\ changed' = (changed \/ (pc = "awaiting" /\ value # downstreamProtocol))
  /\ UNCHANGED << pc, args, site, timeoutRequestObjects, idx, response, pending,
                  calls, results, result, failure, rejections, startProtocol >>

\* variant: the request is always sent as a POST
ProxyFuncCallAsPost(url, method, body) ==
  [url |-> url, method |-> "POST", body |-> body]

\* the arguments of one call this.proxyFunc(url, method, body)
ProxyFuncCall(url, method, body) == [url |-> url, method |-> method, body |-> body]

\* variant: every remaining request is started at once (Promise.all)
TimeoutBodiesToSendAll(objs, i) == SubSeq(objs, i, Len(objs))

\* the request bodies proxySetTimeouts hands to proxyFunc before it awaits,
\* when the for loop is at position i: one call per iteration

TimeoutBodiesToSend(objs, i) == <<objs[i]>>

\* line of the proxyFunc call in proxySetWindow
SetWindowSiteOf(protocol, body, sent) ==
  IF sent = body THEN 129
  ELSE IF protocol = W3C THEN 121 ELSE 125

SetWindowSite(protocol, body) ==
  SetWindowSiteOf(protocol, body, SetWindowBody(protocol, body))

\* convertAndProxy up to its first await.  The model follows one dispatch:
\* the converter keeps nothing from one dispatch to the next except
\* downstreamProtocol, which the setter may set to any value beforehand.
ConvertAndProxy(commandName, url, method, body) ==
  /\ pc = "idle"
  /\ args' = [commandName |-> commandName, url |-> url, method |-> method,
              body |-> body]
  /\ startProtocol' = downstreamProtocol
  /\ changed' = FALSE
  /\ results' = <<>>
  /\ result' = UndefinedResult
  /\ failure' = "none"
  /\ rejections' = <<>>
  /\ response' = UndefinedResult
  /\ UNCHANGED downstreamProtocol
  /\ IF Falsy(downstreamProtocol)
       THEN /\ calls' = << ProxyFuncCall(url, method, body) >>
            /\ pending' = {1}
            /\ site' = 146
            /\ pc' = "awaiting"
            /\ timeoutRequestObjects' = <<>>
            /\ idx' = 0
     ELSE IF commandName = "timeouts"
       THEN LET objs == getTimeoutRequestObjects(downstreamProtocol, body)
            IN /\ timeoutRequestObjects' = objs
               /\ IF objs = <<>>
                    THEN /\ calls' = <<>>
                         /\ pending' = {}
                         /\ site' = 113
                         /\ idx' = 0
                         /\ pc' = "returned"
                    ELSE /\ LET bodies == TimeoutBodiesToSend(objs, 1)
                            IN /\ calls' = [k \in 1..Len(bodies) |->
                                              ProxyFuncCall(url, method, bodies[k])]
                               /\ pending' = 1..Len(bodies)
                         /\ site' = 99
                         /\ idx' = 1
                         /\ pc' = "awaiting"
     ELSE IF commandName = "setWindow"
       THEN /\ calls' = << ProxyFuncCall(url, method,
                                          SetWindowBody(downstreamProtocol, body)) >>
            /\ pending' = {1}
            /\ site' = SetWindowSite(downstreamProtocol, body)
            /\ pc' = "awaiting"
            /\ timeoutRequestObjects' = <<>>
            /\ idx' = 0
     ELSE LET c == RuleTableCall(downstreamProtocol, commandName, url, 1)
          IN /\ calls' = << ProxyFuncCall(c.url, method, body) >>
             /\ pending' = {1}
             /\ site' = c.site
             /\ pc' = "awaiting"
             /\ timeoutRequestObjects' = <<>>
             /\ idx' = 0

\* proxySetTimeouts after a call resolved with res (lines 101-112): TRUE
\* when it returns, FALSE when the loop goes on
\* variant: the dialect is not read again after a call (line 102 missing)
TimeoutsReturnsAfterStatusOnly(protocol, res) == res.statusCode >= 400

TimeoutsReturnsAfterStrict(protocol, res) ==
  \/ protocol # MJSONWP
  \/ res.statusCode > 400

TimeoutsReturnsAfter(protocol, res) ==
  \/ protocol # MJSONWP
  \/ res.statusCode >= 400

\* proxyFunc resolves call c with res; the dispatch runs to its next await or
\* to its return
ProxyFuncResolves(c, res) ==
  /\ pc = "awaiting"
  /\ c \in pending
  /\ results' = Append(results, res)
  /\ UNCHANGED << downstreamProtocol, args, timeoutRequestObjects, failure,
                  rejections, startProtocol, changed >>
  /\ IF site = 99
       THEN /\ response' = res
            /\ IF TimeoutsReturnsAfter(downstreamProtocol, res)
                    \/ idx >= Len(timeoutRequestObjects)
                 THEN /\ pc' = "returned"
                      /\ result' = res
                      /\ pending' = pending \ {c}
                      /\ site' = IF TimeoutsReturnsAfter(downstreamProtocol, res)
                                   THEN IF downstreamProtocol # MJSONWP
                                          THEN 103 ELSE 108
                                   ELSE 113
                      /\ UNCHANGED << idx, calls >>
                 ELSE /\ LET bodies == TimeoutBodiesToSend(timeoutRequestObjects,
                                                           idx + 1)
                         IN /\ calls' = calls \o
                                 [k \in 1..Len(bodies) |->
                                    ProxyFuncCall(args.url, args.method, bodies[k])]
                            /\ pending' = (pending \ {c}) \cup
                                 ((Len(calls) + 1)..(Len(calls) + Len(bodies)))
                      /\ idx' = idx + 1
                      /\ UNCHANGED << pc, site, result >>
       ELSE /\ pc' = "returned"
            /\ result' = res
            /\ pending' = pending \ {c}
            /\ UNCHANGED << site, idx, response, calls >>

\* what convertAndProxy rejects with when proxyFunc rejected with err
\* variant: the rejection is caught and a new error is thrown
RejectionOfWrapped(err) == "ProxyError"

RejectionOf(err) == err

\* proxyFunc rejects call c with err: no try/catch anywhere, the rejection
\* leaves every frame and convertAndProxy rejects with it
ProxyFuncRejects(c, err) ==
  /\ pc = "awaiting"
  /\ c \in pending
  /\ pending' = pending \ {c}
  /\ pc' = "thrown"
  /\ rejections' = Append(rejections, err)
  /\ failure' = RejectionOf(err)
  /\ UNCHANGED << downstreamProtocol, args, site, timeoutRequestObjects, idx,
                  response, calls, results, result, startProtocol, changed >>

Next ==
  \/ \E value \in Protocols : SetDownstreamProtocol(value)
  \/ \E r \in Requests : ConvertAndProxy(r.commandName, r.url, r.method, r.body)
  \/ \E c \in pending, res \in TransportResults : ProxyFuncResolves(c, res)
  \/ \E c \in pending, err \in TransportErrors : ProxyFuncRejects(c, err)

Spec == Init /\ [][Next]_vars

(***************************************************************************)
(* Properties.                                                             *)
(***************************************************************************)
\* the call that forwards the arguments of the dispatch untouched
OriginalCall == [url |-> args.url, method |-> args.method, body |-> args.body]

\* the dialect is Unset: null, or another falsy value
Unset(value) == value \in {"null", ""}

\* the commands listed in COMMAND_URLS_CONFLICTS
RuleTableCommands ==
  { "execute", "executeAsync", "getElementScreenshot", "getWindowHandle",
    "getWindowHandles" }

\* C1: while the dialect is Unset, a dispatch of any command makes exactly
\* one transport call, with the url, method and body it was given, and
\* returns that call's result.
C1_UnsetForwardsUnchanged ==
  (pc # "idle" /\ Unset(startProtocol)) =>
    /\ calls = <<OriginalCall>>
    /\ pc = "returned" => (results = <<result>>)
    /\ Len(results) + Len(rejections) <= 1

\* an Unset dispatch of a rule-table command, whose url the W3C rule would
\* rewrite, has returned
C1_Witness ==
  /\ pc = "returned"
  /\ startProtocol = ""
  /\ args.commandName = "execute"
  /\ w3cConverter("execute", args.url) # args.url
  /\ calls = <<OriginalCall>>

\* the positions of the results with a status code of 400 or more
FailedResults == {k \in 1..Len(results) : results[k].statusCode >= 400}

\* a 'timeouts' dispatch that read MJSONWP whenever it read the dialect
TimeoutsAgainstMJSONWP ==
  /\ pc # "idle"
  /\ args.commandName = "timeouts"
  /\ startProtocol = MJSONWP
  /\ ~changed

\* C2: in a 'timeouts' fan-out against MJSONWP with n request objects, no
\* call follows a result with status >= 400; when the dispatch has returned
\* and the k-th result is the first with status >= 400, exactly k calls were
\* made and the k-th result is returned; when it has returned and no result
\* has status >= 400, exactly n calls were made and (for n >= 1) the n-th
\* result is returned.
C2_FanOutStopsAtFirstFailure ==
  TimeoutsAgainstMJSONWP =>
    /\ \A k \in FailedResults : Len(calls) = k
    /\ pc = "returned" =>
         IF FailedResults # {}
           THEN \E k \in FailedResults :
                  /\ \A j \in FailedResults : k <= j
                  /\ Len(calls) = k
                  /\ result = results[k]
           ELSE /\ Len(calls) = Len(timeoutRequestObjects)
                /\ Len(results) = Len(timeoutRequestObjects)
                /\ Len(timeoutRequestObjects) >= 1 =>
                     result = results[Len(timeoutRequestObjects)]

\* the second of three sub-calls returned 400 after the first returned 399
C2_Witness ==
  /\ TimeoutsAgainstMJSONWP
  /\ pc = "returned"
  /\ Len(timeoutRequestObjects) = 3
  /\ Len(calls) = 2
  /\ results[1].statusCode = 399
  /\ results[2].statusCode = 400
  /\ result = results[2]

\* C3: every result a dispatch returns is a result the transport returned
\* for a call of that dispatch, so a dispatch that returned has made at
\* least one transport call.
C3_ResultComesFromTransport ==
  pc = "returned" =>
    /\ Len(calls) >= 1
    /\ \E k \in 1..Len(results) : result = results[k]

\* text of an unsigned number: digits, then optionally one '.' or ',' and
\* optional further digits
UnsignedNumberText(s) ==
  /\ Len(s) >= 1
  /\ IsDigit(s[1])
  /\ \A i \in 1..Len(s) : IsDigit(s[i]) \/ s[i] \in {".", ","}
  /\ Cardinality({i \in 1..Len(s) : s[i] \in {".", ","}}) <= 1

\* the positions of the entries whose stringified value is an unsigned number
NumericEntries(pairs) ==
  {i \in 1..Len(pairs) : UnsignedNumberText(JsToString(pairs[i][2]))}

\* {type: kind, ms: value} of an entry, 'pageLoad' becoming 'page load'
ExpectedTimeoutObject(pair) ==
  JsObj(<< <<s_type, JsStr(IF pair[1] = s_pageLoad THEN s_page_load ELSE pair[1])>>,
           <<s_ms, pair[2]>> >>)

\* C4: with MJSONWP active and a 'timeouts' body that lacks 'ms' or 'type',
\* the request objects are {type: kind, ms: value} for exactly the entries
\* whose stringified value is an unsigned number, in the order of the body,
\* 'pageLoad' becoming 'page load', values unconverted; the transport calls
\* carry these objects in this order.
C4_TimeoutObjectsForMJSONWP ==
  ( /\ pc # "idle"
    /\ args.commandName = "timeouts"
    /\ startProtocol = MJSONWP
    /\ (~Has(args.body, s_ms) \/ ~Has(args.body, s_type)) ) =>
    LET pairs == toPairs(args.body)
        kept == NumericEntries(pairs)
    IN /\ Len(timeoutRequestObjects) = Cardinality(kept)
       /\ \A i \in kept :
            timeoutRequestObjects[Cardinality({k \in kept : k <= i})]
              = ExpectedTimeoutObject(pairs[i])
       /\ Len(calls) <= Len(timeoutRequestObjects)
       /\ \A k \in 1..Len(calls) :
            calls[k] = [url |-> args.url, method |-> args.method,
                        body |-> timeoutRequestObjects[k]]

\* {script: "1000", pageLoad: "2000.5", implicit: "abc"} was sent to MJSONWP
\* as two calls, the "abc" entry dropped
C4_Witness ==
  /\ pc = "returned"
  /\ args.commandName = "timeouts"
  /\ startProtocol = MJSONWP
  /\ args.body = JsObj(<< <<s_script, JsStr(s_1000)>>, <<s_pageLoad, JsStr(s_2000_5)>>,
                          <<s_implicit, JsStr(s_abc)>> >>)
  /\ Len(calls) = 2
  /\ calls[1].body = JsObj(<< <<s_type, JsStr(s_script)>>, <<s_ms, JsStr(s_1000)>> >>)
  /\ calls[2].body = JsObj(<< <<s_type, JsStr(s_page_load)>>, <<s_ms, JsStr(s_2000_5)>> >>)

\* the body a 'setWindow' dispatch must forward
ExpectedWindowBody ==
  LET parsed == safeJsonParse(args.body)
      plain == parsed.t = "object"
      hasName == plain /\ \E i \in 1..Len(parsed.kv) : parsed.kv[i][1] = s_name
      hasHandle == plain /\ \E i \in 1..Len(parsed.kv) : parsed.kv[i][1] = s_handle
  IN IF startProtocol = W3C /\ hasName /\ ~hasHandle
       THEN JsObj(<< <<s_handle, Get(parsed, s_name)>> >>)
       ELSE IF startProtocol = MJSONWP /\ hasHandle /\ ~hasName
         THEN JsObj(<< <<s_name, Get(parsed, s_handle)>> >>)
         ELSE args.body

\* C5: 'setWindow' with a set dialect makes exactly one transport call, with
\* the input url and method; its body is {handle: name} for W3C when the
\* parsed body is a plain object with 'name' and without 'handle', {name:
\* handle} for MJSONWP when it has 'handle' and no 'name', and otherwise the
\* body exactly as received.
C5_SetWindowBody ==
  (pc # "idle" /\ args.commandName = "setWindow" /\ ~Unset(startProtocol)) =>
    /\ calls = << [url |-> args.url, method |-> args.method,
                   body |-> ExpectedWindowBody] >>
    /\ pc = "returned" => results = <<result>>

\* the JSON text {"name":"main"} was forwarded to W3C as the object
\* {handle: "main"}
C5_Witness ==
  /\ pc = "returned"
  /\ args.commandName = "setWindow"
  /\ startProtocol = W3C
  /\ args.body = JsStr(j_name_main)
  /\ calls[1].body = JsObj(<< <<s_handle, JsStr(s_main)>> >>)

\* the two shapes of the element screenshot url
ElementScreenshotUrl(prefix, id) == prefix \o s_element \o id \o s_screenshot_end
ScreenshotUrl(prefix, id) == prefix \o s_screenshot \o id

UrlPrefixes == {s_session \o s_abc, s_session \o s_async1}
ElementIds == {s_123}

\* the only call of the dispatch, with the given url and the input method
\* and body
OnlyCallWithUrl(url) ==
  calls = << [url |-> url, method |-> args.method, body |-> args.body] >>

ExpectedSingleTimeoutBody ==
  IF startProtocol = W3C /\ Has(args.body, s_ms) /\ Has(args.body, s_type)
    THEN LET type == Get(args.body, s_type)
             kind == IF type = JsStr(s_page_load) THEN s_pageLoad ELSE JsToString(type)
         IN JsObj(<< <<kind, Get(args.body, s_ms)>> >>)
    ELSE args.body

\* C7: 'timeouts' with a set dialect other than MJSONWP makes exactly one
\* transport call whatever the body, and returns its result; the body sent
\* is {kind: ms} (kind 'pageLoad' for type 'page load', the type otherwise)
\* when the dialect is W3C and the body has 'ms' and 'type', and the
\* original body in every other case.
C7_SingleTimeoutCall ==
  ( /\ pc # "idle"
    /\ args.commandName = "timeouts"
    /\ ~Unset(startProtocol)
    /\ startProtocol # MJSONWP ) =>
    /\ calls = << [url |-> args.url, method |-> args.method,
                   body |-> ExpectedSingleTimeoutBody] >>
    /\ Len(results) >= 1 => pc = "returned"
    /\ pc = "returned" => results = <<result>>

\* {type: "page load", ms: 5000} was forwarded to W3C as {pageLoad: 5000}
C7_Witness ==
  /\ pc = "returned"
  /\ args.commandName = "timeouts"
  /\ startProtocol = W3C
  /\ args.body = JsObj(<< <<s_type, JsStr(s_page_load)>>, <<s_ms, JsNum(5000)>> >>)
  /\ calls[1].body = JsObj(<< <<s_pageLoad, JsNum(5000)>> >>)
  /\ results = <<result>>

\* the rule of COMMAND_URLS_CONFLICTS that lists a command
RuleOf(commandName) ==
  CASE commandName \in {"execute", "executeAsync"} -> "execute"
    [] commandName = "getElementScreenshot" -> "screenshot"
    [] commandName \in {"getWindowHandle", "getWindowHandles"} -> "window"

SessionIds == {s_abc, s_async1, s_execute1, s_screenshot_sid}

\* an identifier that no rule of the table can mistake for part of an
\* endpoint: it contains none of '/', 'async', 'execute', 'screenshot'
Opaque(id) ==
  /\ ~Includes(id, <<"/">>)
  /\ ~Includes(id, s_async)
  /\ ~Includes(id, Tail(s_execute))
  /\ ~Includes(id, Tail(s_screenshot_end))

\* the endpoints of each dialect as the table of the specification lists
\* them: the element screenshot of MJSONWP is element/{id}/screenshot
TableEndpoints(protocol, rule, id) ==
  CASE rule = "execute" ->
         IF protocol = MJSONWP THEN {s_execute, s_execute_async}
         ELSE {s_execute_sync_w3c, s_execute_async_w3c}
    [] rule = "screenshot" ->
         IF protocol = MJSONWP
           THEN {s_element \o id \o s_screenshot_end}
           ELSE {s_screenshot \o id}
    [] rule = "window" ->
         IF protocol = MJSONWP THEN {s_window_handle, s_window_handles}
         ELSE {s_window, s_window_slash_handles}

\* the endpoints of each dialect as its own converter writes them: the
\* element screenshot of MJSONWP is screenshot/{id}
OwnEndpoints(protocol, rule, id) ==
  IF rule = "screenshot"
    THEN TableEndpoints(IF protocol = MJSONWP THEN W3C ELSE MJSONWP, rule, id)
    ELSE TableEndpoints(protocol, rule, id)

\* the dialect's transform leaves the url of the dispatch unchanged, and the
\* dispatch forwarded the original request from the fall-through on line 179
LeftUnrewritten ==
  /\ RewrittenUrl(startProtocol, RuleOf(args.commandName), args.url) = args.url
  /\ calls = <<OriginalCall>>
  /\ site = 179

\* C8 as stated: for every rule-table command and both dialects, the
\* dialect's transform leaves a url in that dialect's own shape (as the
\* table of the specification gives it) unchanged, and the dispatch makes
\* exactly one call with the original url, method and body.
C8_Original ==
  ( /\ pc # "idle"
    /\ args.commandName \in RuleTableCommands
    /\ startProtocol \in {MJSONWP, W3C} ) =>
    \A sid \in SessionIds, id \in ElementIds :
      \A endpoint \in TableEndpoints(startProtocol, RuleOf(args.commandName), id) :
        args.url = SessionUrl(sid, endpoint) => LeftUnrewritten

\* C8 amended: the same for a url /session/{sid}/<endpoint> whose endpoint
\* is in the form the dialect's own converter writes (MJSONWP: execute,
\* execute_async, screenshot/{id}, window_handle, window_handles; W3C:
\* execute/sync, execute/async, element/{id}/screenshot, window,
\* window/handles) and whose {sid} and {id} are opaque identifiers, that
\* contain none of '/', 'async', 'execute', 'screenshot'.
C8_OwnShapeUnchanged ==
  ( /\ pc # "idle"
    /\ args.commandName \in RuleTableCommands
    /\ startProtocol \in {MJSONWP, W3C} ) =>
    \A sid \in SessionIds, id \in ElementIds :
      \A endpoint \in OwnEndpoints(startProtocol, RuleOf(args.commandName), id) :
        (args.url = SessionUrl(sid, endpoint) /\ Opaque(sid) /\ Opaque(id))
          => LeftUnrewritten

\* /session/abc/execute/async was dispatched to W3C as 'executeAsync' and
\* forwarded as it was
C8_Witness ==
  /\ pc = "returned"
  /\ args.commandName = "executeAsync"
  /\ startProtocol = W3C
  /\ args.url = SessionUrl(s_abc, s_execute_async_w3c)
  /\ calls = <<OriginalCall>>
  /\ site = 179

\* C9: the transport calls of a dispatch are strictly sequential: at most
\* one is outstanding, a call is issued only after every earlier call has
\* returned its result, and only if each of those had a status below 400.
C9_CallsAreSequential ==
  /\ Cardinality(pending) <= 1
  /\ Len(calls) <= Len(results) + 1
  /\ \A i \in 1..(Len(calls) - 1) : results[i].statusCode < 400

\* the third call of a fan-out is outstanding after two results
C9_Witness ==
  /\ pc = "awaiting"
  /\ args.commandName = "timeouts"
  /\ Len(calls) = 3
  /\ Len(results) = 2
  /\ pending = {3}

\* C10: when the transport raises a failure, the dispatch ends with that
\* same failure and returns no result; no call is outstanding or issued
\* afterwards, the remaining request objects of a fan-out are never sent and
\* the calls made are the request objects in order, each sent once.
C10_TransportFailurePropagates ==
  (pc = "thrown" \/ Len(rejections) >= 1) =>
    /\ pc = "thrown"
    /\ rejections = <<failure>>
    /\ result = UndefinedResult
    /\ pending = {}
    /\ Len(calls) = Len(results) + 1
    /\ site = 99 =>
         /\ Len(calls) <= Len(timeoutRequestObjects)
         /\ \A k \in 1..Len(calls) : calls[k].body = timeoutRequestObjects[k]

\* the second of three sub-calls raised ETIMEDOUT: the third was never sent
C10_Witness ==
  /\ pc = "thrown"
  /\ args.commandName = "timeouts"
  /\ Len(timeoutRequestObjects) = 3
  /\ Len(calls) = 2
  /\ Len(results) = 1
  /\ failure = "ETIMEDOUT"

\* C11: for 'getWindowHandle' and 'getWindowHandles' the suffix of the url,
\* not the command name, decides the form of the rewritten url: with W3C
\* active .../window_handle is forwarded as .../window and
\* .../window_handles as .../window/handles; with MJSONWP active .../window
\* is forwarded as .../window_handle and .../window/handles as
\* .../window_handles; method and body are unchanged.
C11_WindowHandleUrlBySuffix ==
  (pc # "idle" /\ args.commandName \in {"getWindowHandle", "getWindowHandles"}) =>
    \A sid \in SessionIds :
      /\ (startProtocol = W3C /\ args.url = SessionUrl(sid, s_window_handle))
           => OnlyCallWithUrl(SessionUrl(sid, s_window))
      /\ (startProtocol = W3C /\ args.url = SessionUrl(sid, s_window_handles))
           => OnlyCallWithUrl(SessionUrl(sid, s_window_slash_handles))
      /\ (startProtocol = MJSONWP /\ args.url = SessionUrl(sid, s_window))
           => OnlyCallWithUrl(SessionUrl(sid, s_window_handle))
      /\ (startProtocol = MJSONWP /\ args.url = SessionUrl(sid, s_window_slash_handles))
           => OnlyCallWithUrl(SessionUrl(sid, s_window_handles))

\* 'getWindowHandle' (singular) with the plural url /session/abc/window_handles
\* was forwarded to W3C as /session/abc/window/handles
C11_Witness ==
  /\ pc = "returned"
  /\ args.commandName = "getWindowHandle"
  /\ startProtocol = W3C
  /\ args.url = SessionUrl(s_abc, s_window_handles)
  /\ calls[1].url = SessionUrl(s_abc, s_window_slash_handles)

\* C12: a command that is neither 'timeouts' nor 'setWindow' nor listed in
\* the rule table is forwarded in exactly one transport call with the url,
\* method and body unchanged, for every value of the dialect, even when a
\* rule would rewrite the url; the result of that call is returned.
C12_OtherCommandsForwardedUnchanged ==
  ( /\ pc # "idle"
    /\ args.commandName \notin {"timeouts", "setWindow"} \cup RuleTableCommands ) =>
    /\ calls = <<OriginalCall>>
    /\ Len(results) + Len(rejections) <= 1
    /\ pc = "returned" => results = <<result>>

\* 'getStatus' with a url that the execute rule rewrites for W3C was
\* forwarded to W3C as it was
C12_Witness ==
  /\ pc = "returned"
  /\ args.commandName = "getStatus"
  /\ startProtocol = W3C
  /\ args.url = SessionUrl(s_abc, s_execute)
  /\ executeW3cConverter(args.url) # args.url
  /\ calls = <<OriginalCall>>

\* the url with its part from the leftmost '/execute' onward replaced
ExecuteUrlWith(url, replacement) ==
  LET starts == {i \in 1..Len(url) :
                   /\ i + Len(s_execute) - 1 <= Len(url)
                   /\ SubSeq(url, i, i + Len(s_execute) - 1) = s_execute}
  IN IF starts = {} THEN url
     ELSE SubSeq(url, 1, (CHOOSE i \in starts : \A j \in starts : i <= j) - 1)
            \o replacement

\* the text 'async' occurs somewhere in the url
ContainsAsync(url) ==
  \E i \in 1..Len(url) :
    /\ i + Len(s_async) - 1 <= Len(url)
    /\ SubSeq(url, i, i + Len(s_async) - 1) = s_async

\* C13: for 'execute' and 'executeAsync' the variant of the rewritten url is
\* chosen by whether the url contains 'async' anywhere, never by the command
\* name: with W3C active the part of the url from '/execute' onward becomes
\* '/execute/async' if the url contains 'async' and '/execute/sync'
\* otherwise; with MJSONWP active it becomes '/execute_async' if the url
\* contains 'async' and '/execute' otherwise.
C13_ExecuteVariantByUrlText ==
  (pc # "idle" /\ args.commandName \in {"execute", "executeAsync"}) =>
    /\ startProtocol = W3C =>
         OnlyCallWithUrl(ExecuteUrlWith(args.url,
           IF ContainsAsync(args.url) THEN s_execute_async_w3c
                                      ELSE s_execute_sync_w3c))
    /\ startProtocol = MJSONWP =>
         OnlyCallWithUrl(ExecuteUrlWith(args.url,
           IF ContainsAsync(args.url) THEN s_execute_async ELSE s_execute))

\* 'executeAsync' with /session/async1/execute/sync, where only the session
\* id contains 'async', was forwarded to MJSONWP as
\* /session/async1/execute_async
C13_Witness ==
  /\ pc = "returned"
  /\ args.commandName = "executeAsync"
  /\ startProtocol = MJSONWP
  /\ args.url = SessionUrl(s_async1, s_execute_sync_w3c)
  /\ calls[1].url = SessionUrl(s_async1, s_execute_async)

\* C14: the request list of a 'timeouts' fan-out is built once, when it
\* starts, and the dialect is read again after every sub-call: while a
\* fan-out that began with MJSONWP awaits a sub-call the list never changes,
\* and when the sub-call returns while the dialect is no longer MJSONWP the
\* dispatch returns that sub-call's result, whatever its status, and issues
\* none of the remaining request objects.
C14_DialectReadAfterEachSubCall ==
  [][ ( /\ pc = "awaiting"
        /\ args.commandName = "timeouts"
        /\ startProtocol = MJSONWP ) =>
        /\ timeoutRequestObjects' = timeoutRequestObjects
        /\ (results' # results /\ downstreamProtocol # MJSONWP) =>
             /\ pc' = "returned"
             /\ result' = results'[Len(results')]
             /\ calls' = calls ]_vars

\* a fan-out of three request objects that began with MJSONWP returned the
\* result of its first sub-call, of status 200, after the dialect was set to
\* W3C while that sub-call was in flight
C14_Witness ==
  /\ pc = "returned"
  /\ args.commandName = "timeouts"
  /\ startProtocol = MJSONWP
  /\ changed
  /\ downstreamProtocol = W3C
  /\ Len(timeoutRequestObjects) = 3
  /\ Len(calls) = 1
  /\ results = <<result>>
  /\ result.statusCode = 200
  /\ timeoutRequestObjects[1] = calls[1].body

\* C15: every transport call of a dispatch carries the method the dispatch
\* was given; its url differs from the input url only for rule-table
\* commands and its body differs from the input body only for 'timeouts'
\* and 'setWindow'; no step of a dispatch changes the active dialect.
C15_DispatchFrame ==
  /\ [](\A k \in 1..Len(calls) :
          /\ calls[k].method = args.method
          /\ args.commandName \notin RuleTableCommands => calls[k].url = args.url
          /\ args.commandName \notin {"timeouts", "setWindow"}
               => calls[k].body = args.body)
  /\ [][ (pc' # pc \/ args' # args \/ calls' # calls \/ results' # results
            \/ rejections' # rejections)
           => downstreamProtocol' = downstreamProtocol ]_vars

\* a 'timeouts' fan-out dispatched with method GET made three calls, each
\* with method GET, the input url and a body of its own
C15_Witness ==
  /\ pc = "returned"
  /\ args.commandName = "timeouts"
  /\ args.method = "GET"
  /\ Len(calls) = 3
  /\ \A k \in 1..3 : /\ calls[k].method = "GET"
                     /\ calls[k].url = args.url
                     /\ calls[k].body # args.body

\* the dialect whose transform undoes the transform of protocol
OtherProtocol(protocol) == IF protocol = MJSONWP THEN W3C ELSE MJSONWP

\* the url a dispatch sent for a rule-table command, transformed by the
\* other dialect's converter of the same rule, is the url it was given
RoundTrip ==
  /\ Len(calls) >= 1
  /\ calls[1].url = RewrittenUrl(startProtocol, RuleOf(args.commandName), args.url)
  /\ RewrittenUrl(OtherProtocol(startProtocol), RuleOf(args.commandName),
                  calls[1].url) = args.url

\* an identifier that contains neither 'async' nor '/'
NoAsyncNoSlash(id) == ~Includes(id, s_async) /\ ~Includes(id, <<"/">>)

\* C16 as stated: for a url /session/{sid}/<endpoint> whose {sid} and {id}
\* contain neither 'async' nor '/' and whose endpoint is a canonical
\* endpoint of one dialect, the transform towards the other dialect followed
\* by the transform back returns the original url.
C16_Original ==
  ( /\ pc # "idle"
    /\ args.commandName \in RuleTableCommands
    /\ startProtocol \in {MJSONWP, W3C} ) =>
    \A sid \in SessionIds, id \in ElementIds :
      \A endpoint \in OwnEndpoints(OtherProtocol(startProtocol),
                                   RuleOf(args.commandName), id) :
        ( /\ args.url = SessionUrl(sid, endpoint)
          /\ NoAsyncNoSlash(sid)
          /\ NoAsyncNoSlash(id) ) => RoundTrip

\* C16 amended: the same when {sid} and {id} contain none of 'async', '/',
\* 'execute', 'screenshot': for <endpoint> one of execute/sync,
\* execute/async, element/{id}/screenshot, window, window/handles,
\* jsonwpConverter and then w3cConverter returns the original url; for
\* <endpoint> one of execute, execute_async, screenshot/{id}, window_handle,
\* window_handles, w3cConverter and then jsonwpConverter returns it.
C16_TransformsInverse ==
  ( /\ pc # "idle"
    /\ args.commandName \in RuleTableCommands
    /\ startProtocol \in {MJSONWP, W3C} ) =>
    \A sid \in SessionIds, id \in ElementIds :
      \A endpoint \in OwnEndpoints(OtherProtocol(startProtocol),
                                   RuleOf(args.commandName), id) :
        ( /\ args.url = SessionUrl(sid, endpoint)
          /\ Opaque(sid)
          /\ Opaque(id) ) => RoundTrip

\* /session/abc/window/handles was dispatched to MJSONWP as
\* 'getWindowHandles' and sent as /session/abc/window_handles, which the
\* W3C converter of the rule maps back
C16_Witness ==
  /\ pc = "returned"
  /\ args.commandName = "getWindowHandles"
  /\ startProtocol = MJSONWP
  /\ args.url = SessionUrl(s_abc, s_window_slash_handles)
  /\ site = 175
  /\ calls[1].url = SessionUrl(s_abc, s_window_handles)
  /\ windowW3cConverter(calls[1].url) = args.url

====
